---------------------------- MODULE Spec2Model ----------------------------
(***************************************************************************)
(* Toronto Bike Share analytics: the loader (src/src/loader.py), the       *)
(* metric, station, time and forecast aggregations (src/src/*.py) and the  *)
(* dashboard script that wires them together (src/app.py).                 *)
(*                                                                         *)
(* A pandas DataFrame is a record [columns, categories, rows]: the set of  *)
(* column names, the categories of every category-typed column, and the    *)
(* rows in order, each row a function from column name to cell.  A cell is *)
(* a tagged record, so that one column can hold values of several kinds    *)
(* (a number, text, a missing value) as an object column does.             *)
(*                                                                         *)
(* The library behaviour is that of pandas 2.x: value_counts of a category *)
(* column reports every category, round() rounds a half to even, std() is  *)
(* the sample standard deviation, a comparison of two category columns of  *)
(* different categories raises TypeError, and fillna(0) validates 0        *)
(* against a category column.                                              *)
(***************************************************************************)
EXTENDS Integers, Sequences, FiniteSets, TLC

VARIABLES
    csv,          \* the file DataLoader reads (app.py: data/financial_transactions.csv)
    df,           \* app.py: the table cached by get_data()
    session,      \* app.py: where the script run stands
    filter,       \* app.py: the sidebar's date and time inputs
    filtered_df,  \* app.py: df.loc[mask]
    dashboard,    \* app.py: what the run computed and rendered
    table,        \* the table a caller of the library hands to an aggregation
    ret           \* the last library call and what it returned

vars == <<csv, df, session, filter, filtered_df, dashboard, table, ret>>

-----------------------------------------------------------------------------
(* Bounds of the model *)

MaxRows == 3          \* rows of a table handed to the library
MaxDay == 3           \* calendar days 0..MaxDay (day 0 is Thursday 2024-08-01)
MaxTripsPerDay == 4   \* trips of one day in a log of trips at one hour
MaxFileRows == 2      \* data rows of the CSV file

-----------------------------------------------------------------------------
(* Cells *)

NA == [k |-> "na"]                       \* NaN / NaT / None
Num(n) == [k |-> "num", v |-> n]         \* a number
Str(s) == [k |-> "str", v |-> s]         \* text
Ts(t) == [k |-> "ts", v |-> t]           \* a Timestamp, seconds since day 0 00:00:00
NumStr(n) == [k |-> "numstr", v |-> n]   \* text that spells the number n
DateStr(t) == [k |-> "datestr", v |-> t] \* text that spells the timestamp t
Bool(b) == [k |-> "bool", v |-> b]       \* True / False

IsNA(c) == c.k = "na"
NotNA(c) == c.k # "na"

(* Sequences *)

Range(s) == {s[i] : i \in 1..Len(s)}

SeqsUpTo(S, n) == UNION {[1..m -> S] : m \in 0..n}

RECURSIVE SumSeq(_)
SumSeq(s) == IF s = <<>> THEN 0 ELSE Head(s) + SumSeq(Tail(s))

\* a stable sort: before[i][j] says s[i] must come before s[j] (a strict weak order);
\* elements neither of which must come before the other keep their order
StableSort(s, before) ==
    LET n == Len(s)
        Rank(i) == Cardinality({j \in 1..n :
                       \/ before[j][i]
                       \/ (~before[i][j] /\ j < i)}) + 1
    IN  [k \in 1..n |-> s[CHOOSE i \in 1..n : Rank(i) = k]]

\* (the elements of a set of integers in descending order)
RECURSIVE Descending(_)
Descending(S) ==
    IF S = {} THEN <<>>
    ELSE LET m == CHOOSE x \in S : \A y \in S : x >= y
         IN  <<m>> \o Descending(S \ {m})

\* the elements of a set of integers in ascending order
RECURSIVE Ascending(_)
Ascending(S) ==
    IF S = {} THEN <<>>
    ELSE LET m == CHOOSE x \in S : \A y \in S : x <= y
         IN  <<m>> \o Ascending(S \ {m})

\* (a truncation that keeps the first row whatever n is)
FirstRowOnly(s, n) == IF s = <<>> THEN <<>> ELSE <<s[1]>>

\* DataFrame.head(n)
Head_n(s, n) == SubSeq(s, 1, IF n < Len(s) THEN n ELSE Len(s))

Abs(x) == IF x < 0 THEN -x ELSE x

(* Timestamps: pandas .dt accessors *)

SecondsPerDay == 24 * 60 * 60
SecondsPerHour == 60 * 60

DtDate(t) == t \div SecondsPerDay
DtHour(t) == (t % SecondsPerDay) \div SecondsPerHour
\* Monday = 0 ... Sunday = 6; day 0 of the model is Thursday 2024-08-01
DtDayOfWeek(t) == (DtDate(t) + 3) % 7

At(day, hh, mm, ss) == day * SecondsPerDay + hh * SecondsPerHour + mm * 60 + ss

-----------------------------------------------------------------------------
(* DataFrames *)

None == [none |-> TRUE]

DataFrame(cols, rws) == [columns |-> cols, categories |-> <<>>, rows |-> rws]

IsNone(d) == DOMAIN d = {"none"}

\* DataFrame.empty: any axis of length 0
Empty(d) == d.columns = {} \/ d.rows = <<>>

\* df[c] as the sequence of its cells
Column(d, c) == [i \in 1..Len(d.rows) |-> d.rows[i][c]]

\* the columns stored as category dtype
CategoryColumns(d) == DOMAIN d.categories

\* df.loc[mask], mask a boolean Series: the rows kept in order, columns and dtypes
\* (categories) kept
Loc(d, mask) ==
    LET kept == Ascending({i \in 1..Len(d.rows) : mask[i]})
    IN  [d EXCEPT !.rows = [k \in 1..Len(kept) |-> d.rows[kept[k]]]]

\* A name bound to a DataFrame object.  A function's parameter df is bound to the
\* caller's object; frame is what the object holds.
Argument(d) == [object |-> "callers", frame |-> d]

\* the name left bound to the object it was bound to
SameObject(r) == r

\* DataFrame.copy(): a new object that holds the same rows, columns and dtypes
copy(r) == [object |-> "new", frame |-> r.frame]

\* df[c] = cells: the object the name is bound to gets the column, as a column that
\* is not categorical
SetColumn(r, c, cells) ==
    [r EXCEPT !.frame =
        [columns |-> @.columns \cup {c},
         categories |-> [x \in (DOMAIN @.categories) \ {c} |-> @.categories[x]],
         rows |-> [i \in 1..Len(@.rows) |->
                      [x \in @.columns \cup {c} |->
                          IF x = c THEN cells[i] ELSE @.rows[i][x]]]]]

\* the caller's object d when the function returns, r being the function's df
AfterCall(r, d) == IF r.object = "callers" THEN r.frame ELSE d

\* how a call ends: it returns a value or raises an exception
Return(v) == [ok |-> TRUE, val |-> v]
Raise(e) == [ok |-> FALSE, exc |-> e]


-----------------------------------------------------------------------------
(* pandas conversions *)

\* pd.to_numeric(x, errors="coerce")
ToNumeric(c) ==
    CASE c.k = "num" -> c
      [] c.k = "numstr" -> Num(c.v)
      [] OTHER -> NA

\* pd.to_datetime(x, errors="coerce")
ToDatetime(c) ==
    CASE c.k = "ts" -> c
      [] c.k = "datestr" -> Ts(c.v)
      [] OTHER -> NA

\* Series >= Timestamp and Series <= Timestamp: a comparison with NaT is False
GeTs(c, bound) == c.k = "ts" /\ c.v >= bound.v
\* (Series < Timestamp: the comparison that leaves the bound itself out)
LtTs(c, bound) == c.k = "ts" /\ c.v < bound.v
LeTs(c, bound) == c.k = "ts" /\ c.v <= bound.v

\* round(): numpy rounds a half to the even neighbour.  n / d with d > 0, n >= 0.
RoundHalfEven(n, d) ==
    LET q == n \div d
        r == n % d
    IN  IF 2 * r < d THEN q
        ELSE IF 2 * r > d THEN q + 1
        ELSE IF q % 2 = 0 THEN q ELSE q + 1

\* a float result kept exact, as the fraction num / den
Frac(n, d) == [num |-> n, den |-> d]
FracEq(a, b) == a.num * b.den = b.num * a.den

-----------------------------------------------------------------------------
(* src/src/metrics.py *)

MAX_DURATION_SECONDS == 24 * 60 * 60

NoColumn == "<None>"

RECURSIVE FirstExistingColumn(_, _)
FirstExistingColumn(d, candidates) ==
    IF candidates = <<>> THEN NoColumn
    ELSE IF Head(candidates) \in d.columns THEN Head(candidates)
    ELSE FirstExistingColumn(d, Tail(candidates))

IsEmpty(d) == IsNone(d) \/ Empty(d)

\* start, end: a Ts cell, or NA for None
get_total_trips(d, start, end) ==
    IF IsEmpty(d) THEN 0
    ELSE IF IsNA(start) /\ IsNA(end) THEN Len(d.rows)
    ELSE IF "Start Time" \in d.columns
         THEN LET mask == [i \in 1..Len(d.rows) |->
                      /\ (NotNA(start) => GeTs(d.rows[i]["Start Time"], ToDatetime(start)))
                      /\ (NotNA(end) => LeTs(d.rows[i]["Start Time"], ToDatetime(end)))]
              IN  Len(Loc(d, mask).rows)
         ELSE Len(d.rows)

DurationColumns == <<"trip_duration_seconds", "Trip Duration", "amount">>

\* (the open interval: a range check that drops 0 and MAX_DURATION_SECONDS themselves)
ValidDurationExclusive(c) == c.k = "num" /\ c.v > 0 /\ c.v < MAX_DURATION_SECONDS

\* the durations that enter the average: numeric, >= 0 and <= MAX_DURATION_SECONDS
ValidDuration(c) == c.k = "num" /\ c.v >= 0 /\ c.v <= MAX_DURATION_SECONDS

\* minutes, as a fraction
get_avg_duration(d) ==
    IF IsEmpty(d) THEN Frac(0, 1)
    ELSE LET col_name == FirstExistingColumn(d, DurationColumns)
         IN  IF col_name = NoColumn THEN Frac(0, 1)
             ELSE LET numeric == [i \in 1..Len(d.rows) |-> ToNumeric(d.rows[i][col_name])]
                      duration_sec == SelectSeq(numeric, ValidDuration)
                      seconds == [i \in 1..Len(duration_sec) |-> duration_sec[i].v]
                  IN  IF duration_sec = <<>> THEN Frac(0, 1)
                      ELSE Frac(SumSeq(seconds), Len(seconds) * 60)

UserTypeColumns == <<"user_type", "User Type", "type">>

\* Series.value_counts(dropna=True) as a mapping label -> count.  An object column
\* counts the labels that occur; a category column reports every category of its
\* dtype, the ones no row carries with count 0.
ValueCounts(d, c) ==
    LET cells == Column(d, c)
        keys == IF c \in CategoryColumns(d) THEN d.categories[c]
                ELSE {x \in Range(cells) : NotNA(x)}
    IN  [x \in keys |-> Cardinality({i \in 1..Len(cells) : cells[i] = x})]

\* (size() in place of sum(): the number of the values, not their sum)
CountOver(f, S) == Cardinality(S)

RECURSIVE SumOver(_, _)
SumOver(f, S) ==
    IF S = {} THEN 0
    ELSE LET x == CHOOSE y \in S : TRUE IN f[x] + SumOver(f, S \ {x})

\* (the variant the tests of an earlier revision expect: zero counts for Member and
\* Casual, not an empty mapping, when there is nothing to count)
get_user_type_breakdown_zeros(d, return_percentages) ==
    LET zeros == [x \in {Str("Member"), Str("Casual")} |-> 0]
    IN  IF IsEmpty(d) THEN zeros
        ELSE LET col_name == FirstExistingColumn(d, UserTypeColumns)
             IN  IF col_name = NoColumn THEN zeros
                 ELSE LET counts == ValueCounts(d, col_name)
                          total == SumOver(counts, DOMAIN counts)
                      IN  IF ~return_percentages THEN counts
                          ELSE IF total = 0 THEN zeros
                          ELSE [x \in DOMAIN counts |->
                                    RoundHalfEven(counts[x] * 1000, total)]

\* counts, or percentages in tenths of a percent: (counts / total * 100).round(1)
get_user_type_breakdown(d, return_percentages) ==
    IF IsEmpty(d) THEN <<>>
    ELSE LET col_name == FirstExistingColumn(d, UserTypeColumns)
         IN  IF col_name = NoColumn THEN <<>>
             ELSE LET counts == ValueCounts(d, col_name)
                      total == SumOver(counts, DOMAIN counts)
                  IN  IF ~return_percentages THEN counts
                      ELSE IF total = 0 THEN <<>>
                      ELSE [x \in DOMAIN counts |->
                                RoundHalfEven(counts[x] * 1000, total)]

BikeIdColumns == <<"bike_id", "Bike Id", "Bike ID", "customer_id">>

\* (a cutoff that a total has to exceed: the flag read as "above the threshold")
CutoffExclusive(sorted, qn, qd) ==
    LET n == Len(sorted)
        i == ((n - 1) * qn) \div qd
        r == ((n - 1) * qn) % qd
    IN  IF r = 0 THEN sorted[i + 1] * qd + 1
        ELSE sorted[i + 1] * qd + r * (sorted[i + 2] - sorted[i + 1]) + 1

\* Series.quantile(q), linear interpolation, of the values of `sorted` (ascending),
\* q = qn / qd in [0, 1], times qd (so that it stays an integer)
QuantileTimes(sorted, qn, qd) ==
    LET n == Len(sorted)
        i == ((n - 1) * qn) \div qd
        r == ((n - 1) * qn) % qd
    IN  IF r = 0 THEN sorted[i + 1] * qd
        ELSE sorted[i + 1] * qd + r * (sorted[i + 2] - sorted[i + 1])

\* the function's df when it returns: past the early returns it is a copy, whose
\* duration column has been made numeric
df_of_get_bike_usage(d) ==
    IF IsEmpty(d) THEN Argument(d)
    ELSE LET id_col == FirstExistingColumn(d, BikeIdColumns)
             dur_col == FirstExistingColumn(d, DurationColumns)
         IN  IF id_col = NoColumn \/ dur_col = NoColumn THEN Argument(d)
             ELSE SetColumn(copy(Argument(d)), dur_col,
                            [i \in 1..Len(d.rows) |-> ToNumeric(d.rows[i][dur_col])])

\* extreme_threshold = qn / qd
get_bike_usage(d, top_n, qn, qd) ==
    IF IsEmpty(d) THEN <<>>
    ELSE LET id_col == FirstExistingColumn(d, BikeIdColumns)
             dur_col == FirstExistingColumn(d, DurationColumns)
         IN  IF id_col = NoColumn \/ dur_col = NoColumn THEN <<>>
             ELSE LET n == Len(d.rows)
                      \* groupby drops the rows with a missing key and sorts the keys
                      ids == {d.rows[i][id_col].v : i \in {j \in 1..n : NotNA(d.rows[j][id_col])}}
                      Seconds(i) == LET c == ToNumeric(d.rows[i][dur_col])
                                    IN  IF IsNA(c) THEN 0 ELSE c.v
                      Total(b) == LET mine == {i \in 1..n : d.rows[i][id_col] = Num(b)}
                                  IN  SumOver([i \in mine |-> Seconds(i)], mine)
                      keys == Ascending(ids)
                      grouped == [j \in 1..Len(keys) |->
                                     [bike_id |-> keys[j],
                                      total_duration_seconds |-> Total(keys[j])]]
                  IN  IF grouped = <<>> THEN <<>>
                      ELSE LET sorted == StableSort(grouped,
                                   [i \in 1..Len(grouped) |-> [j \in 1..Len(grouped) |->
                                       grouped[i].total_duration_seconds
                                           > grouped[j].total_duration_seconds]])
                               totals == [j \in 1..Len(sorted) |->
                                   sorted[Len(sorted) + 1 - j].total_duration_seconds]
                               cutoff == QuantileTimes(totals, qn, qd)
                               flagged == [j \in 1..Len(sorted) |->
                                   [bike_id |-> sorted[j].bike_id,
                                    total_duration_seconds |-> sorted[j].total_duration_seconds,
                                    is_extreme |-> sorted[j].total_duration_seconds * qd >= cutoff]]
                           IN  Head_n(flagged, top_n)

-----------------------------------------------------------------------------
(* src/src/time_analysis.py *)

\* the Start Time cells that are timestamps (value_counts and groupby drop NaT)
StartTimes(d) ==
    LET cells == SelectSeq(Column(d, "Start Time"), LAMBDA c : c.k = "ts")
    IN  [i \in 1..Len(cells) |-> cells[i].v]

get_peak_hours(d) ==
    IF IsNone(d) \/ Empty(d) THEN <<>>
    ELSE IF "Start Time" \notin d.columns THEN <<>>
    ELSE LET times == StartTimes(d)
             hours == Ascending({DtHour(times[i]) : i \in 1..Len(times)})
         IN  [j \in 1..Len(hours) |->
                 [hour |-> hours[j],
                  trip_count |-> Cardinality({i \in 1..Len(times) : DtHour(times[i]) = hours[j]})]]

DayName(dow) ==
    <<"Monday", "Tuesday", "Wednesday", "Thursday", "Friday", "Saturday", "Sunday">>[dow + 1]

get_daily_trend(d) ==
    IF IsNone(d) \/ Empty(d) THEN <<>>
    ELSE IF "Start Time" \notin d.columns THEN <<>>
    ELSE LET times == StartTimes(d)
             dates == Ascending({DtDate(times[i]) : i \in 1..Len(times)})
             Trips(day) == Cardinality({i \in 1..Len(times) : DtDate(times[i]) = day})
             max_trips == IF dates = <<>> THEN 0
                          ELSE CHOOSE m \in {Trips(dates[j]) : j \in 1..Len(dates)} :
                                   \A j \in 1..Len(dates) : Trips(dates[j]) <= m
         IN  [j \in 1..Len(dates) |->
                 [date |-> dates[j],
                  trip_count |-> Trips(dates[j]),
                  day_of_week |-> DayName(DtDayOfWeek(dates[j] * SecondsPerDay)),
                  is_peak_day |-> Trips(dates[j]) = max_trips]]

-----------------------------------------------------------------------------
(* Text: a station name is the sequence of its characters' code points *)

Lower(s) == [i \in 1..Len(s) |-> IF s[i] \in 65..90 THEN s[i] + 32 ELSE s[i]]

Contains(s, pat) ==
    \E i \in 1..(Len(s) - Len(pat) + 1) : SubSeq(s, i, i + Len(pat) - 1) = pat

\* s < t as Python compares str: by code point, a proper prefix first
RECURSIVE StrLess(_, _)
StrLess(s, t) ==
    IF t = <<>> THEN FALSE
    ELSE IF s = <<>> THEN TRUE
    ELSE IF Head(s) # Head(t) THEN Head(s) < Head(t)
    ELSE StrLess(Tail(s), Tail(t))

\* the elements of a set of texts in ascending order
RECURSIVE AscendingStr(_)
AscendingStr(S) ==
    IF S = {} THEN <<>>
    ELSE LET m == CHOOSE x \in S : \A y \in S : x = y \/ StrLess(x, y)
         IN  <<m>> \o AscendingStr(S \ {m})

-----------------------------------------------------------------------------
(* src/src/station_analysis.py *)

\* "test", "temp", "invalid"
TestPatterns ==
    {<<116, 101, 115, 116>>, <<116, 101, 109, 112>>, <<105, 110, 118, 97, 108, 105, 100>>}

\* notna() & (!= "") & ~astype(str).str.lower().str.contains("test|temp|invalid")
ValidStation(c) ==
    /\ NotNA(c)
    /\ c.v # <<>>
    /\ \A pat \in TestPatterns : ~Contains(Lower(c.v), pat)

\* (ascending=[False, False]: ties by name descending)
ByCountThenNameDescending(a_count, a_name, b_count, b_name) ==
    \/ a_count > b_count
    \/ (a_count = b_count /\ StrLess(b_name, a_name))

\* sort_values(by=[count, name], ascending=[False, True])
ByCountThenName(a_count, a_name, b_count, b_name) ==
    \/ a_count > b_count
    \/ (a_count = b_count /\ StrLess(a_name, b_name))

get_top_stations(d, n, station_type) ==
    IF IsNone(d) \/ Empty(d) THEN <<>>
    ELSE LET col_name == IF station_type = "start" THEN "start_station_name"
                         ELSE "end_station_name"
         IN  IF col_name \notin d.columns THEN <<>>
             ELSE LET clean_df == Loc(d, [i \in 1..Len(d.rows) |->
                                                ValidStation(d.rows[i][col_name])])
                      cells == Column(clean_df, col_name)
                      names == AscendingStr({cells[i].v : i \in 1..Len(cells)})
                      station_counts == [j \in 1..Len(names) |->
                          [station_name |-> names[j],
                           trip_count |-> Cardinality({i \in 1..Len(cells) : cells[i].v = names[j]})]]
                      sorted == StableSort(station_counts,
                          [i \in 1..Len(names) |-> [j \in 1..Len(names) |->
                              ByCountThenName(
                                  station_counts[i].trip_count, station_counts[i].station_name,
                                  station_counts[j].trip_count, station_counts[j].station_name)]])
                  IN  IF Empty(clean_df) THEN <<>> ELSE Head_n(sorted, n)

\* " -> " with the arrow U+2192
Arrow == <<32, 8594, 32>>

\* the rows with a valid origin and a valid destination
CleanStations(d) ==
    Loc(d, [i \in 1..Len(d.rows) |->
               /\ ValidStation(d.rows[i]["start_station_name"])
               /\ ValidStation(d.rows[i]["end_station_name"])])

\* Series != Series of two category columns raises unless their categories are the same
CategoriesDiffer(d) ==
    /\ {"start_station_name", "end_station_name"} \subseteq CategoryColumns(d)
    /\ d.categories["start_station_name"] # d.categories["end_station_name"]

\* (the astype("category") of tables over 10000 rows changes no value: route is
\* built from astype(str))
get_top_routes(d, n, include_circular) ==
    IF IsNone(d) \/ Empty(d) THEN Return(<<>>)
    ELSE IF ~({"start_station_name", "end_station_name"} \subseteq d.columns)
    THEN Return(<<>>)
    ELSE LET clean_df == CleanStations(d)
         IN  IF Empty(clean_df) THEN Return(<<>>)
             ELSE IF ~include_circular /\ CategoriesDiffer(clean_df) THEN Raise("TypeError")
             ELSE LET kept == IF include_circular THEN clean_df
                              ELSE Loc(clean_df, [i \in 1..Len(clean_df.rows) |->
                                       clean_df.rows[i]["start_station_name"]
                                           # clean_df.rows[i]["end_station_name"]])
                      route == [i \in 1..Len(kept.rows) |->
                                   kept.rows[i]["start_station_name"].v \o Arrow
                                       \o kept.rows[i]["end_station_name"].v]
                      labels == AscendingStr(Range(route))
                      route_counts == [j \in 1..Len(labels) |->
                          [route |-> labels[j],
                           trip_count |-> Cardinality({i \in 1..Len(route) : route[i] = labels[j]})]]
                      sorted == StableSort(route_counts,
                          [i \in 1..Len(labels) |-> [j \in 1..Len(labels) |->
                              ByCountThenName(route_counts[i].trip_count, route_counts[i].route,
                                              route_counts[j].trip_count, route_counts[j].route)]])
                  IN  Return(Head_n(sorted, n))

\* pd.merge(arrivals, departures, on="Station", how="outer") keeps Station a category
\* column when both keys are category columns of the same categories; otherwise
\* Station is an object column.  DataFrame.fillna(0) validates the fill value against
\* a category column even when it has nothing to fill, and 0 is no station category.
MergedStationIsCategory(d) ==
    /\ {"start_station_name", "end_station_name"} \subseteq CategoryColumns(d)
    /\ d.categories["start_station_name"] = d.categories["end_station_name"]

\* Priority: "High" and "Normal" stand for the two labels of the source
get_station_flow_balance(d, n, priority_threshold) ==
    IF IsNone(d) \/ Empty(d) THEN Return(<<>>)
    ELSE IF ~({"start_station_name", "end_station_name"} \subseteq d.columns)
    THEN Return(<<>>)
    ELSE LET clean_df == CleanStations(d)
             rws == clean_df.rows
             Departures(name) ==
                 Cardinality({i \in 1..Len(rws) : rws[i]["start_station_name"].v = name})
             Arrivals(name) ==
                 Cardinality({i \in 1..Len(rws) : rws[i]["end_station_name"].v = name})
             stations == AscendingStr(
                 {rws[i]["start_station_name"].v : i \in 1..Len(rws)}
                     \cup {rws[i]["end_station_name"].v : i \in 1..Len(rws)})
             flow == [j \in 1..Len(stations) |->
                 [Station |-> stations[j],
                  NetFlow |-> Arrivals(stations[j]) - Departures(stations[j]),
                  Priority |-> IF Abs(Arrivals(stations[j]) - Departures(stations[j]))
                                      > priority_threshold
                               THEN "High" ELSE "Normal"]]
             sorted == StableSort(flow,
                 [i \in 1..Len(stations) |-> [j \in 1..Len(stations) |->
                     ByCountThenName(Abs(flow[i].NetFlow), flow[i].Station,
                                     Abs(flow[j].NetFlow), flow[j].Station)]])
         IN  IF Empty(clean_df) THEN Return(<<>>)
             ELSE IF MergedStationIsCategory(clean_df) THEN Raise("TypeError")
             ELSE Return(Head_n(sorted, n))

-----------------------------------------------------------------------------
(* src/src/prediction.py *)

IsWeekend(t) == DtDayOfWeek(t) >= 5

\* (the trip counts of hour h on every date of the table, 0 on a date without a trip
\* in that hour)
SamplesOverAllDates(times, h, is_weekend) ==
    LET at == {i \in 1..Len(times) : DtHour(times[i]) = h /\ IsWeekend(times[i]) \in is_weekend}
        dates == Ascending({DtDate(times[i]) :
                     i \in {k \in 1..Len(times) : IsWeekend(times[k]) \in is_weekend}})
    IN  [j \in 1..Len(dates) |-> Cardinality({i \in at : DtDate(times[i]) = dates[j]})]

\* the per-date trip counts (the samples) of hour h among the start times `times`,
\* in date order, over the dates whose is_weekend flag is in the set is_weekend
HourSamples(times, h, is_weekend) ==
    LET at == {i \in 1..Len(times) : DtHour(times[i]) = h /\ IsWeekend(times[i]) \in is_weekend}
        dates == Ascending({DtDate(times[i]) : i \in at})
    IN  [j \in 1..Len(dates) |-> Cardinality({i \in at : DtDate(times[i]) = dates[j]})]

\* (the mean cut to a whole number instead of rounded)
TruncatedMean(samples) ==
    IF samples = <<>> THEN 0 ELSE SumSeq(samples) \div Len(samples)

\* mean().round(0), 0 for no sample (fillna)
RoundedMean(samples) ==
    IF samples = <<>> THEN 0 ELSE RoundHalfEven(SumSeq(samples), Len(samples))

\* (the deviation taken about 0 and not about the mean: the root of the mean square,
\* cut to a whole number)
RootMeanSquare(samples) ==
    LET n == Len(samples)
        a == SumSeq([i \in 1..n |-> samples[i] * samples[i]])
    IN  IF n = 0 THEN 0
        ELSE CHOOSE x \in 0..a : x * x * n <= a /\ (x + 1) * (x + 1) * n > a

\* (the sample standard deviation cut to a whole number instead of rounded)
FlooredStd(samples) ==
    LET n == Len(samples)
        a == n * SumSeq([i \in 1..n |-> samples[i] * samples[i]])
                 - SumSeq(samples) * SumSeq(samples)
        b == n * (n - 1)
    IN  IF n < 2 THEN 0
        ELSE CHOOSE x \in 0..a : x * x * b <= a /\ (x + 1) * (x + 1) * b > a

\* std().round(0): the sample standard deviation (ddof = 1), NaN -> 0 for fewer than
\* two samples.  The variance is a / b below; its root is rounded half to even.
RoundedStd(samples) ==
    LET n == Len(samples)
        squares == [i \in 1..n |-> samples[i] * samples[i]]
        a == n * SumSeq(squares) - SumSeq(samples) * SumSeq(samples)
        b == n * (n - 1)
    IN  IF n < 2 THEN 0
        ELSE LET r == CHOOSE x \in 0..a : x * x * b <= a /\ (x + 1) * (x + 1) * b > a
                 half == (2 * r + 1) * (2 * r + 1) * b
             IN  IF 4 * a < half THEN r
                 ELSE IF 4 * a > half THEN r + 1
                 ELSE IF r % 2 = 0 THEN r ELSE r + 1

\* the function's df when it returns or raises: past the early return it is a copy,
\* which gets the feature columns date, hour and is_weekend
df_of_predict_hourly_demand(d) ==
    IF IsNone(d) \/ Empty(d) THEN Argument(d)
    ELSE LET local == copy(Argument(d))
             n == Len(d.rows)
             start == IF "Start Time" \in d.columns THEN Column(d, "Start Time")
                      ELSE <<>>
             date(c) == IF c.k = "ts" THEN Num(DtDate(c.v)) ELSE NA
             hour(c) == IF c.k = "ts" THEN Num(DtHour(c.v)) ELSE NA
             is_weekend(c) == Bool(c.k = "ts" /\ IsWeekend(c.v))
         IN  IF "Start Time" \notin d.columns THEN local
             ELSE SetColumn(
                      SetColumn(
                          SetColumn(local, "date", [i \in 1..n |-> date(start[i])]),
                          "hour", [i \in 1..n |-> hour(start[i])]),
                      "is_weekend", [i \in 1..n |-> is_weekend(start[i])])

\* "Start Time" is a datetime64 column here: its cells are timestamps or NaT.
\* The statistics of the hours that have a trip are merged onto the 24-hour template
\* (how="left"); fillna(0) fills the other hours, and the weekday or weekend mean of
\* an hour with no such day.
predict_hourly_demand(d) ==
    IF IsNone(d) THEN Raise("AttributeError")
    ELSE IF Empty(d) THEN Return(<<>>)
    ELSE IF "Start Time" \notin d.columns THEN Raise("KeyError")
    ELSE LET times == StartTimes(d)
             observed == {DtHour(times[i]) : i \in 1..Len(times)}
             all_hours == [j \in 1..24 |-> j - 1]
             Stats(h) ==
                 IF h \notin observed
                 THEN [hour |-> h, predicted_demand |-> 0, std_dev |-> 0,
                       weekday_demand |-> 0, weekend_demand |-> 0]
                 ELSE [hour |-> h,
                       predicted_demand |-> RoundedMean(HourSamples(times, h, BOOLEAN)),
                       std_dev |-> RoundedStd(HourSamples(times, h, BOOLEAN)),
                       weekday_demand |->
                           RoundedMean(HourSamples(times, h, {FALSE})),
                       weekend_demand |->
                           RoundedMean(HourSamples(times, h, {TRUE}))]
         IN  Return([j \in 1..24 |-> Stats(all_hours[j])])

-----------------------------------------------------------------------------
(* src/src/loader.py *)

\* str.strip() on the header names the model's files use
Strip(c) ==
    CASE c = " Trip Id" -> "Trip Id"
      [] c = "Bike Id " -> "Bike Id"
      [] OTHER -> c

rename_map ==
    [c \in {"Trip Duration", "Trip  Duration", "Start Time", "End Time",
            "Start Station Name", "End Station Name", "Bike Id", "User Type",
            "Model", "Trip Id"} |->
        CASE c \in {"Trip Duration", "Trip  Duration"} -> "trip_duration_seconds"
          [] c = "Start Time" -> "Start Time"
          [] c = "End Time" -> "End Time"
          [] c = "Start Station Name" -> "start_station_name"
          [] c = "End Station Name" -> "end_station_name"
          [] c = "Bike Id" -> "bike_id"
          [] c = "User Type" -> "user_type"
          [] c = "Model" -> "model"
          [] c = "Trip Id" -> "trip_id"]

Renamed(c) == IF Strip(c) \in DOMAIN rename_map THEN rename_map[Strip(c)] ELSE Strip(c)

\* (the model's files have no two headers that are renamed to the same name)
rename_columns(d) ==
    LET Source(new) == CHOOSE c \in d.columns : Renamed(c) = new
        cols == {Renamed(c) : c \in d.columns}
    IN  [columns |-> cols,
         categories |-> d.categories,
         rows |-> [i \in 1..Len(d.rows) |-> [new \in cols |-> d.rows[i][Source(new)]]]]

\* the columns clean_data requires to be present in a row
critical_cols == <<"Start Time">>

clean_data(d) ==
    LET Convert(c, cell) ==
            CASE c \in {"Start Time", "End Time"} -> ToDatetime(cell)
              [] c = "trip_duration_seconds" -> ToNumeric(cell)
              [] OTHER -> cell
        converted == [d EXCEPT !.rows =
            [i \in 1..Len(d.rows) |-> [c \in d.columns |-> Convert(c, d.rows[i][c])]]]
        existing_cols == {c \in Range(critical_cols) : c \in d.columns}
    IN  Loc(converted, [i \in 1..Len(converted.rows) |->
                           \A c \in existing_cols : NotNA(converted.rows[i][c])])

cat_cols == <<"user_type", "model", "start_station_name", "end_station_name">>

\* dtype == 'object': the column holds text
IsObjectColumn(d, c) ==
    \E i \in 1..Len(d.rows) : d.rows[i][c].k \in {"str", "numstr", "datestr"}

\* astype('category'): the categories are the values the column holds
optimize_memory(d) ==
    LET converted == {c \in Range(cat_cols) : c \in d.columns /\ IsObjectColumn(d, c)}
    IN  [d EXCEPT !.categories =
            [c \in converted |-> {x \in Range(Column(d, c)) : NotNA(x)}]]

\* the file: absent, unreadable as CSV, or a frame of raw cells as read_csv gives them
\* (the existence test left out)
AlwaysExists(file) == TRUE

\* os.path.exists(self.file_path)
exists(file) == file.state # "absent"

\* pd.read_csv: the frame of raw cells, or the error of the file system or the parser
read_csv(file) ==
    IF file.state = "absent" THEN Raise("FileNotFoundError")
    ELSE IF file.state = "malformed" THEN Raise(file.error)
    ELSE Return(file.frame)

\* raise ValueError(f"Error reading CSV: {e}"): the error names the one it was
\* raised for
ValueErrorFrom(e) == [ok |-> FALSE, exc |-> "ValueError", cause |-> e]

load(file) ==
    IF ~exists(file) THEN Raise("FileNotFoundError")
    ELSE LET read == read_csv(file)
         IN  IF ~read.ok THEN ValueErrorFrom(read.exc)
             ELSE Return(optimize_memory(clean_data(rename_columns(read.val))))

-----------------------------------------------------------------------------
(* src/app.py: one run of the script *)

Skipped == [ok |-> FALSE, exc |-> "NotReached"]

\* min and max of df['Start Time'], as dates
MinDate(d) ==
    LET times == StartTimes(d)
    IN  DtDate(CHOOSE t \in Range(times) : \A u \in Range(times) : t <= u)
MaxDate(d) ==
    LET times == StartTimes(d)
    IN  DtDate(CHOOSE t \in Range(times) : \A u \in Range(times) : t >= u)

\* the defaults of the two time inputs: 00:00 and 23:59
DefaultStartTime == At(0, 0, 0, 0)
DefaultEndTime == At(0, 23, 59, 0)

\* pd.to_datetime(f"{date} {time}"); a time is seconds after midnight
Combine(date, time) == Ts(date * SecondsPerDay + time)

FilteredDf(d, f) ==
    Loc(d, [i \in 1..Len(d.rows) |->
               /\ GeTs(d.rows[i]["Start Time"], Combine(f.start_date, f.start_time))
               /\ LeTs(d.rows[i]["Start Time"], Combine(f.end_date, f.end_time))])

\* (a forecast of the operator's view)
ForecastInputFiltered(d, view) == view

\* the table the forecast tab hands to predict_hourly_demand: df, not filtered_df
ForecastInput(d, view) == d

\* everything below the filter: the metrics, the tabs.  An exception ends the run;
\* what comes after it is not computed.
Render(d, view) ==
    LET flow == get_station_flow_balance(view, 20, 50)
        After(out) == IF flow.ok THEN out ELSE Skipped
    IN  [total_trips |-> Return(get_total_trips(view, NA, NA)),
         avg_duration |-> Return(get_avg_duration(view)),
         records_loaded |-> Return(Len(d.rows)),
         peak_df |-> Return(get_peak_hours(view)),
         daily_df |-> Return(get_daily_trend(view)),
         top_stations |-> Return(get_top_stations(view, 10, "start")),
         top_routes |-> get_top_routes(view, 5, TRUE),
         flow_df |-> flow,
         user_breakdown |-> After(Return(get_user_type_breakdown(view, FALSE))),
         bike_usage |-> After(Return(Head_n(get_bike_usage(view, 10, 95, 100), 10))),
         forecast_df |-> After(IF ~Empty(d) THEN predict_hourly_demand(ForecastInput(d, view))
                                ELSE Skipped)]

-----------------------------------------------------------------------------
(* The inputs of the model *)

\* station names "A" and "B"
StationA == <<65>>
StationB == <<66>>

\* the files: the headers as exported, or a file with no 'Start Time' column, padded
\* names and the doubled space of 'Trip  Duration'; up to MaxFileRows data rows; a row
\* may lack its trip id, and its start time may be missing or not a date
FileHeaders ==
    {{"Trip Id", "Start Time", "Trip Duration", "Start Station Name",
      "End Station Name", "Bike Id", "User Type"},
     {" Trip Id", "Trip  Duration", "Start Station Name",
      "End Station Name", "Bike Id ", "User Type"}}

FileTimes == {At(0, 8, 0, 0), At(1, 17, 30, 0)}

\* a start time in the last minute of the last day, after 23:59:00
LastMinute == At(1, 23, 59, 30)

\* a row varies either in what the loader cleans (its trip id, its start time) or in
\* what the aggregations group by (its day, its user type, its stations)
FileRowChoices ==
    [trip_id : {FALSE}, start : {DateStr(At(0, 8, 0, 0)), NA},
     user : {Str("Member")}, from : {StationA}]
    \cup [trip_id : {TRUE}, start : {Str("n/a"), NA},
          user : {Str("Member")}, from : {StationA}]
    \cup [trip_id : {TRUE}, start : {DateStr(t) : t \in FileTimes},
          user : {Str("Member"), Str("Casual")}, from : {StationA}]
    \cup [trip_id : {TRUE}, start : {DateStr(t) : t \in FileTimes},
          user : {Str("Member")}, from : {StationB}]
    \cup [trip_id : {TRUE}, start : {DateStr(LastMinute)},
          user : {Str("Member")}, from : {StationA}]

\* the raw row number i of a file with headers hs
FileRow(hs, i, c) ==
    [h \in hs |->
        CASE Strip(h) = "Trip Id" -> IF c.trip_id THEN Num(100 + i) ELSE NA
          [] Strip(h) = "Start Time" -> c.start
          [] Strip(h) \in {"Trip Duration", "Trip  Duration"} -> Num(600 * i)
          [] Strip(h) = "Start Station Name" -> Str(c.from)
          [] Strip(h) = "End Station Name" ->
                 Str(IF c.from = StationA THEN StationB ELSE StationA)
          [] Strip(h) = "Bike Id" -> Num(i)
          [] Strip(h) = "User Type" -> c.user]

\* what read_csv raises on a file it cannot read as CSV: bad quoting or ragged
\* rows, no columns at all, bytes that are not text
ParseErrors == {"ParserError", "EmptyDataError", "UnicodeDecodeError"}

Files ==
    {[state |-> "absent"]}
    \cup {[state |-> "malformed", error |-> e] : e \in ParseErrors}
    \cup {[state |-> "ok",
           frame |-> DataFrame(hs, [i \in 1..Len(cs) |-> FileRow(hs, i, cs[i])])] :
              hs \in FileHeaders, cs \in SeqsUpTo(FileRowChoices, MaxFileRows)}

\* what the operator sets the two time inputs to: the defaults, a later start, an
\* earlier end
TimeChoices ==
    {[start_time |-> DefaultStartTime, end_time |-> DefaultEndTime],
     [start_time |-> At(0, 8, 15, 0), end_time |-> DefaultEndTime],
     [start_time |-> DefaultStartTime, end_time |-> At(0, 8, 15, 0)]}

NoFilter == [start_date |-> 0, end_date |-> 0, start_time |-> 0, end_time |-> 0]
NotRendered == [total_trips |-> Skipped]
NoCall == [fn |-> "none"]

-----------------------------------------------------------------------------
(* The dashboard session: src/app.py run top to bottom, once per interaction *)

Init ==
    /\ csv \in Files
    /\ df = None
    /\ session = "start"
    /\ filter = NoFilter
    /\ filtered_df = None
    /\ dashboard = NotRendered
    /\ table = None
    /\ ret = NoCall

\* the script from the sidebar down, on the cached table d with the inputs f.
\* The run works on the table get_data() hands it, taken here to be the cached
\* object itself: df and filtered_df are the two objects as the run leaves them.
RunFrom(d, f) ==
    \E view \in {FilteredDf(d, f)} :
        /\ filter' = f
        /\ dashboard' = Render(d, view)
        /\ filtered_df' = IF dashboard'.bike_usage = Skipped THEN view
                           ELSE AfterCall(df_of_get_bike_usage(view), view)
        /\ df' = IF dashboard'.forecast_df = Skipped THEN d
                  ELSE AfterCall(df_of_predict_hourly_demand(ForecastInput(d, view)), d)
        /\ session' = "ran"

\* the first run of a session: get_data() loads and caches the table, the inputs
\* have their defaults
FirstRun ==
    /\ session = "start"
    /\ LET loaded == load(csv)
       IN  IF ~loaded.ok
           THEN /\ session' = IF loaded.exc = "FileNotFoundError" THEN "stopped"
                              ELSE "crashed"
                /\ UNCHANGED <<df, filter, filtered_df, dashboard>>
           ELSE IF ~Empty(loaded.val) /\ "Start Time" \in loaded.val.columns
                THEN RunFrom(loaded.val,
                             [start_date |-> MinDate(loaded.val),
                              end_date |-> MaxDate(loaded.val),
                              start_time |-> DefaultStartTime,
                              end_time |-> DefaultEndTime])
                ELSE /\ df' = loaded.val
                     /\ session' = "stopped"
                     /\ UNCHANGED <<filter, filtered_df, dashboard>>
    /\ UNCHANGED <<csv, table, ret>>

\* the operator changes an input: the script runs again on the cached table
Rerun(start_date, end_date, start_time, end_time) ==
    /\ session = "ran"
    /\ start_date \in MinDate(df)..MaxDate(df)
    /\ end_date \in MinDate(df)..MaxDate(df)
    /\ RunFrom(df, [start_date |-> start_date, end_date |-> end_date,
                    start_time |-> start_time, end_time |-> end_time])
    /\ UNCHANGED <<csv, table, ret>>

Next ==
    \/ FirstRun
    \/ /\ session = "ran"
       /\ \E start_date \in MinDate(df)..MaxDate(df), end_date \in MinDate(df)..MaxDate(df),
             times \in TimeChoices :
             Rerun(start_date, end_date, times.start_time, times.end_time)

Spec == Init /\ [][Next]_vars

-----------------------------------------------------------------------------
(* The library called directly: the tables a caller may hand to an aggregation *)

\* rows of up to MaxRows cells each, one column
OneColumn(c, cells) ==
    {DataFrame({c}, [i \in 1..Len(vs) |-> [x \in {c} |-> vs[i]]]) : vs \in SeqsUpTo(cells, MaxRows)}

\* trips at 08:30 and 17:00 of the days 0..MaxDay, in any order, some without start time
TimeTables ==
    OneColumn("Start Time",
              {Ts(At(day, 8, 30, 0)) : day \in 0..MaxDay}
                  \cup {Ts(At(day, 17, 0, 0)) : day \in 0..MaxDay} \cup {NA})

\* n copies of x
Repeat(x, n) == [i \in 1..n |-> x]

RECURSIVE Concat(_)
Concat(ss) == IF ss = <<>> THEN <<>> ELSE Head(ss) \o Concat(Tail(ss))

\* a chronological log of trips at 08:00: per day 0..MaxDay, up to MaxTripsPerDay trips
HourLogTables ==
    {DataFrame({"Start Time"},
               Concat([j \in 1..(MaxDay + 1) |->
                   Repeat([x \in {"Start Time"} |-> Ts(At(j - 1, 8, 0, 0))], trips[j - 1])])) :
        trips \in [0..MaxDay -> 0..MaxTripsPerDay]}

DurationCells ==
    {Num(-1), Num(0), Num(60), Num(MAX_DURATION_SECONDS), Num(MAX_DURATION_SECONDS + 1),
     NumStr(120), Str("abc"), NA}

DurationTables == OneColumn("trip_duration_seconds", DurationCells)

\* the duration under its other names, under two names at once and under a name that
\* is no alias
AliasTables ==
    {DataFrame(cols, [i \in 1..Len(rws) |-> [c \in cols |-> rws[i][c]]]) :
        cols \in {{"Trip Duration"}, {"amount"}, {"duration"}, {"Trip Duration", "amount"},
                  {"trip_duration_seconds", "amount"}},
        rws \in SeqsUpTo({[c \in {"Trip Duration", "amount", "duration", "trip_duration_seconds"}
                               |-> IF c = "amount" THEN amount ELSE Num(60)] :
                              amount \in {Num(60), Num(MAX_DURATION_SECONDS + 1)}}, MaxRows)}

UserLabels == {Str("Member"), Str("Casual")}

\* the user type under each of its names, as text
UserTextTables ==
    UNION {OneColumn(c, UserLabels \cup {NA}) : c \in {"user_type", "User Type", "type"}}

\* a category column as the loader makes it, and views of it: every label that occurs
\* is a category, a category need not occur
UserCategoryTables ==
    {[d EXCEPT !.categories = [c \in {"user_type"} |-> cats]] :
        d \in OneColumn("user_type", UserLabels \cup {NA}),
        cats \in SUBSET UserLabels} \
    {d \in [columns : {{"user_type"}}, categories : [{"user_type"} -> SUBSET UserLabels],
            rows : SeqsUpTo([{"user_type"} -> UserLabels \cup {NA}], MaxRows)] :
        \E i \in 1..Len(d.rows) :
            NotNA(d.rows[i]["user_type"]) /\ d.rows[i]["user_type"] \notin d.categories["user_type"]}

BikeTables ==
    {DataFrame({"bike_id", "trip_duration_seconds"}, rws) :
        rws \in SeqsUpTo([bike_id : {Num(1), Num(2), Num(3)},
                          trip_duration_seconds : {Num(30), Num(60)}], MaxRows)}

StationTextTables ==
    {DataFrame({"start_station_name", "end_station_name"}, rws) :
        rws \in SeqsUpTo([start_station_name : {Str(StationA), Str(StationB)},
                          end_station_name : {Str(StationA), Str(StationB)}], MaxRows)}

StationCategoryTables == {optimize_memory(d) : d \in StationTextTables}

\* station cells the aggregations leave out: the name "Test", the empty name, none
StationTest == <<84, 101, 115, 116>>
InvalidStationCells == {Str(StationTest), Str(<<>>), NA}

\* trips between A and B among trips that lack a valid origin or a valid destination
MessyStationTables ==
    {DataFrame({"start_station_name", "end_station_name"}, rws) :
        rws \in SeqsUpTo(
            [start_station_name : {Str(StationA)}, end_station_name : {Str(StationB)}]
            \cup [start_station_name : {Str(StationB)}, end_station_name : {Str(StationA)}]
            \cup [start_station_name : InvalidStationCells,
                  end_station_name : {Str(StationA)}]
            \cup [start_station_name : {Str(StationB)},
                  end_station_name : InvalidStationCells],
            MaxRows)}

IsLibTable(d) ==
    \/ d \in {None, DataFrame({}, <<>>)}
    \/ d \in TimeTables
    \/ d \in HourLogTables
    \/ d \in DurationTables
    \/ d \in AliasTables
    \/ d \in UserTextTables
    \/ d \in UserCategoryTables
    \/ d \in BikeTables
    \/ d \in StationTextTables
    \/ d \in StationCategoryTables
    \/ d \in MessyStationTables

\* the arguments the calls are made with
BoundChoices == {NA, Ts(At(0, 17, 0, 0)), Ts(At(1, 8, 30, 0))}

InitLib ==
    /\ IsLibTable(table)
    /\ ret = NoCall
    /\ csv = [state |-> "absent"]
    /\ df = None
    /\ session = "start"
    /\ filter = NoFilter
    /\ filtered_df = None
    /\ dashboard = NotRendered

\* a call is made once the result of the previous one has been taken; table is
\* the caller's object, as the call leaves it
Called(r) ==
    /\ ret = NoCall
    /\ ret' = r
    /\ UNCHANGED <<csv, df, session, filter, filtered_df, dashboard>>

Call_get_total_trips(start, end) ==
    /\ Called([fn |-> "get_total_trips", start |-> start, end |-> end,
               out |-> Return(get_total_trips(table, start, end))])
    /\ table' = table

Call_get_avg_duration ==
    /\ Called([fn |-> "get_avg_duration", out |-> Return(get_avg_duration(table))])
    /\ table' = table

Call_get_bike_usage(top_n, qn, qd) ==
    /\ Called([fn |-> "get_bike_usage", top_n |-> top_n, qn |-> qn, qd |-> qd,
               out |-> Return(get_bike_usage(table, top_n, qn, qd))])
    /\ table' = AfterCall(df_of_get_bike_usage(table), table)

Call_get_user_type_breakdown(return_percentages) ==
    /\ Called([fn |-> "get_user_type_breakdown", return_percentages |-> return_percentages,
               out |-> Return(get_user_type_breakdown(table, return_percentages))])
    /\ table' = table

Call_get_top_stations(n, station_type) ==
    /\ Called([fn |-> "get_top_stations", n |-> n, station_type |-> station_type,
               out |-> Return(get_top_stations(table, n, station_type))])
    /\ table' = table

Call_get_top_routes(n, include_circular) ==
    /\ Called([fn |-> "get_top_routes", n |-> n, include_circular |-> include_circular,
               out |-> get_top_routes(table, n, include_circular)])
    /\ table' = table

Call_get_station_flow_balance(n, priority_threshold) ==
    /\ Called([fn |-> "get_station_flow_balance", n |-> n,
               priority_threshold |-> priority_threshold,
               out |-> get_station_flow_balance(table, n, priority_threshold)])
    /\ table' = table

Call_get_peak_hours ==
    /\ Called([fn |-> "get_peak_hours", out |-> Return(get_peak_hours(table))])
    /\ table' = table

Call_get_daily_trend ==
    /\ Called([fn |-> "get_daily_trend", out |-> Return(get_daily_trend(table))])
    /\ table' = table

Call_predict_hourly_demand ==
    /\ Called([fn |-> "predict_hourly_demand", out |-> predict_hourly_demand(table)])
    /\ table' = AfterCall(df_of_predict_hourly_demand(table), table)

TakeResult ==
    /\ ret # NoCall
    /\ ret' = NoCall
    /\ UNCHANGED <<csv, df, session, filter, filtered_df, dashboard, table>>

NextLib ==
    \/ \E start \in BoundChoices, end \in BoundChoices : Call_get_total_trips(start, end)
    \/ Call_get_avg_duration
    \/ \E top_n \in {1, 2, 10}, qn \in {0, 50, 95, 100} : Call_get_bike_usage(top_n, qn, 100)
    \/ \E return_percentages \in BOOLEAN : Call_get_user_type_breakdown(return_percentages)
    \/ \E n \in {1, 10}, station_type \in {"start", "end"} : Call_get_top_stations(n, station_type)
    \/ \E n \in {1, 10}, include_circular \in BOOLEAN : Call_get_top_routes(n, include_circular)
    \/ \E n \in {1, 20} : Call_get_station_flow_balance(n, 50)
    \/ Call_get_peak_hours
    \/ Call_get_daily_trend
    \/ Call_predict_hourly_demand
    \/ TakeResult

SpecLib == InitLib /\ [][NextLib]_vars

-----------------------------------------------------------------------------
(* Properties of the forecast (SpecLib) *)

\* the 24-row result with every metric 0
ZeroForecast ==
    [j \in 1..24 |-> [hour |-> j - 1, predicted_demand |-> 0, std_dev |-> 0,
                      weekday_demand |-> 0, weekend_demand |-> 0]]

\* C1: predict_hourly_demand returns exactly 24 rows, one per hour 0..23 in order,
\* for every table with a start-time column whatever its size; for a table of zero
\* rows every metric of every row is 0.  (Violated: the table of zero rows gets a
\* result of zero rows.)
C1_AlwaysTwentyFourRows ==
    (ret.fn = "predict_hourly_demand" /\ ~IsNone(table) /\ "Start Time" \in table.columns)
        => /\ ret.out.ok
           /\ Len(ret.out.val) = 24
           /\ \A j \in 1..24 : ret.out.val[j].hour = j - 1
           /\ (table.rows = <<>> => ret.out.val = ZeroForecast)

\* C2: a call of an aggregation on a table that has rows but not the column the
\* aggregation reads (under any of its aliases) does not raise and returns the
\* aggregation's empty result: 0 minutes, an empty mapping, an empty table, the
\* zero-filled 24 rows of the forecast.  get_total_trips counts rows and reads no
\* column unless a bound is given; of it the property asks only that it returns.
\* (Violated: predict_hourly_demand raises KeyError.)
C2_MissingColumnDegrades ==
    (ret.fn # "none" /\ ~IsNone(table) /\ ~Empty(table)) =>
        LET Has(cols) == table.columns \cap cols # {}
            Both(a, b) == a \in table.columns /\ b \in table.columns
            EmptyResult == ret.out.ok /\ DOMAIN ret.out.val = {}
        IN  CASE ret.fn = "get_total_trips" -> ret.out.ok
              [] ret.fn = "get_avg_duration" ->
                     Has({"trip_duration_seconds", "Trip Duration", "amount"})
                         \/ (ret.out.ok /\ ret.out.val.num = 0)
              [] ret.fn = "get_bike_usage" ->
                     (/\ Has({"bike_id", "Bike Id", "Bike ID", "customer_id"})
                      /\ Has({"trip_duration_seconds", "Trip Duration", "amount"}))
                         \/ EmptyResult
              [] ret.fn = "get_user_type_breakdown" ->
                     Has({"user_type", "User Type", "type"}) \/ EmptyResult
              [] ret.fn = "get_top_stations" ->
                     Has({IF ret.station_type = "start" THEN "start_station_name"
                          ELSE "end_station_name"}) \/ EmptyResult
              [] ret.fn \in {"get_top_routes", "get_station_flow_balance"} ->
                     Both("start_station_name", "end_station_name") \/ EmptyResult
              [] ret.fn \in {"get_peak_hours", "get_daily_trend"} ->
                     Has({"Start Time"}) \/ EmptyResult
              [] ret.fn = "predict_hourly_demand" ->
                     Has({"Start Time"}) \/ (ret.out.ok /\ ret.out.val = ZeroForecast)

-----------------------------------------------------------------------------
(* Properties of the loaded table and of the category columns (Spec) *)

\* C3: no row of the table DataLoader.load returned has a missing start time (NaT,
\* what an unparsable one becomes) or a missing trip_id.  (Violated: a row with a
\* start time and no trip id is kept.)
C3_NoNullStartTimeOrTripId ==
    ~IsNone(df) =>
        \A i \in 1..Len(df.rows) :
            /\ ("Start Time" \in df.columns => df.rows[i]["Start Time"].k = "ts")
            /\ ("trip_id" \in df.columns => NotNA(df.rows[i]["trip_id"]))

\* the same table with its category columns as plain text
AsText(d) == [d EXCEPT !.categories = <<>>]

\* C4: on the loaded table and on the filtered view of it, every aggregation returns
\* the same result (rows, keys, counts, order) as on the same rows with the category
\* columns as plain text.  (Violated: the user-type counts of a view have a key with
\* count 0 for a category no row of the view carries.)
C4_CategoriesChangeNoOutput ==
    session = "ran" =>
        \A d \in {df, filtered_df} :
            /\ get_total_trips(d, NA, NA) = get_total_trips(AsText(d), NA, NA)
            /\ get_avg_duration(d) = get_avg_duration(AsText(d))
            /\ get_bike_usage(d, 10, 95, 100) = get_bike_usage(AsText(d), 10, 95, 100)
            /\ \A p \in BOOLEAN :
                   get_user_type_breakdown(d, p) = get_user_type_breakdown(AsText(d), p)
            /\ \A t \in {"start", "end"} :
                   get_top_stations(d, 10, t) = get_top_stations(AsText(d), 10, t)
            /\ \A c \in BOOLEAN : get_top_routes(d, 5, c) = get_top_routes(AsText(d), 5, c)
            /\ get_station_flow_balance(d, 20, 50) = get_station_flow_balance(AsText(d), 20, 50)
            /\ get_peak_hours(d) = get_peak_hours(AsText(d))
            /\ get_daily_trend(d) = get_daily_trend(AsText(d))
            /\ predict_hourly_demand(d) = predict_hourly_demand(AsText(d))

\* C5: in count mode the keys of get_user_type_breakdown are exactly the labels that
\* some row of its input carries, each with the number of rows carrying it, on the
\* loaded table and on the date-filtered view.  (Violated on a view, by the zero-count
\* keys of C4.)
C5_KeysAreTheLabelsThatOccur ==
    session = "ran" =>
        \A d \in {df, filtered_df} :
            "user_type" \in d.columns =>
                LET counts == get_user_type_breakdown(d, FALSE)
                    Carrying(x) == {i \in 1..Len(d.rows) : d.rows[i]["user_type"] = x}
                IN  /\ DOMAIN counts = {x \in Range(Column(d, "user_type")) : NotNA(x)}
                    /\ \A x \in DOMAIN counts : counts[x] = Cardinality(Carrying(x))

-----------------------------------------------------------------------------
(* Properties of the metrics (SpecLib) *)

RowsBetween(d, s, e) ==
    {i \in 1..Len(d.rows) :
        LET c == d.rows[i]["Start Time"]
        IN  /\ c.k = "ts"
            /\ (NotNA(s) => s.v <= c.v)
            /\ (NotNA(e) => c.v <= e.v)}

C8_AverageOfValidDurations ==
    ret.fn = "get_avg_duration" =>
        LET col == CASE IsNone(table) -> NoColumn
                     [] "trip_duration_seconds" \in table.columns -> "trip_duration_seconds"
                     [] "Trip Duration" \in table.columns -> "Trip Duration"
                     [] "amount" \in table.columns -> "amount"
                     [] OTHER -> NoColumn
            Seconds(i) == ToNumeric(table.rows[i][col])
            kept == IF col = NoColumn THEN {}
                    ELSE {i \in 1..Len(table.rows) :
                             /\ Seconds(i).k = "num"
                             /\ 0 <= Seconds(i).v
                             /\ Seconds(i).v <= 86400}
            sum == SumOver([i \in kept |-> Seconds(i).v], kept)
        IN  /\ ret.out.ok
            /\ ret.out.val.den > 0
            /\ IF kept = {} THEN ret.out.val.num = 0
               ELSE FracEq(ret.out.val, Frac(sum, 60 * Cardinality(kept)))

\* reached: durations 0, 86400 and 86401 seconds; the mean of the first two is 720
\* minutes
C8_Witness ==
    /\ ret.fn = "get_avg_duration"
    /\ ~IsNone(table)
    /\ table.columns = {"trip_duration_seconds"}
    /\ Range(Column(table, "trip_duration_seconds")) = {Num(0), Num(86400), Num(86401)}
    /\ FracEq(ret.out.val, Frac(720, 1))

\* C9: every row of the forecast, for its hour h: predicted_demand is the mean,
\* rounded to a nearest whole number, of the trip counts at hour h of the dates that
\* have a trip at hour h; weekday_demand and weekend_demand are that mean over the
\* Monday-Friday dates and over the Saturday-Sunday dates among them; 0 without such
\* a date.  A table with rows has the rows of the hours 0..23.
C9_MeanOfDailyCounts ==
    (ret.fn = "predict_hourly_demand" /\ ret.out.ok) =>
        /\ table.rows # <<>> => [j \in 1..Len(ret.out.val) |-> ret.out.val[j].hour]
                                    = [j \in 1..24 |-> j - 1]
        /\ \A j \in 1..Len(ret.out.val) :
               LET row == ret.out.val[j]
                   trips == {i \in 1..Len(table.rows) :
                                LET c == table.rows[i]["Start Time"]
                                IN  c.k = "ts" /\ DtHour(c.v) = row.hour}
                   Date(i) == DtDate(table.rows[i]["Start Time"].v)
                   dates == {Date(i) : i \in trips}
                   weekdays == {day \in dates : DtDayOfWeek(day * SecondsPerDay) \in 0..4}
                   Count(day) == Cardinality({i \in trips : Date(i) = day})
                   IsRoundedMean(v, days) ==
                       LET total == SumOver([day \in days |-> Count(day)], days)
                       IN  IF days = {} THEN v = 0
                           ELSE 2 * Abs(v * Cardinality(days) - total) <= Cardinality(days)
               IN  /\ IsRoundedMean(row.predicted_demand, dates)
                   /\ IsRoundedMean(row.weekday_demand, weekdays)
                   /\ IsRoundedMean(row.weekend_demand, dates \ weekdays)

\* reached: 2 trips at 08:00 of a Thursday and 4 at 08:00 of the Saturday after it;
\* hour 8 has predicted_demand 3, weekday_demand 2 and weekend_demand 4
C9_Witness ==
    /\ ret.fn = "predict_hourly_demand"
    /\ ret.out.ok
    /\ ~IsNone(table)
    /\ table.columns = {"Start Time"}
    /\ Column(table, "Start Time")
           = Repeat(Ts(At(0, 8, 0, 0)), 2) \o Repeat(Ts(At(2, 8, 0, 0)), 4)
    /\ Len(ret.out.val) = 24
    /\ ret.out.val[9] = [hour |-> 8, predicted_demand |-> 3, std_dev |-> 1,
                         weekday_demand |-> 2, weekend_demand |-> 4]

-----------------------------------------------------------------------------
(* Properties of the dashboard (Spec) *)

\* C10: a run of the dashboard on the cached table with other filter inputs shows the
\* forecast of the whole cached table, the same forecast as the run before it,
\* whenever both runs get to show one: the forecast does not depend on the date and
\* time filter.
C10_ForecastIgnoresTheFilter ==
    [][(/\ session = "ran"
        /\ session' = "ran"
        /\ dashboard.forecast_df.ok
        /\ dashboard'.forecast_df.ok)
          => /\ df' = df
             /\ dashboard'.forecast_df = predict_hourly_demand(df)
             /\ dashboard'.forecast_df = dashboard.forecast_df]_vars

\* reached: the forecast of a trip at 08:00 and a trip at 17:30 shown beside a view
\* that holds only the first
C10_Witness ==
    /\ session = "ran"
    /\ dashboard.forecast_df.ok
    /\ Len(df.rows) = 2
    /\ Len(filtered_df.rows) = 1
    /\ DtHour(filtered_df.rows[1]["Start Time"].v) = 8
    /\ dashboard.total_trips = Return(1)
    /\ dashboard.forecast_df.val[9].predicted_demand = 1
    /\ dashboard.forecast_df.val[18].predicted_demand = 1

\* C11: after every run of the dashboard, whatever the filter inputs were, the cached
\* table is the table load returned, with the same columns, dtypes, rows and values,
\* and the view the aggregations were given is still the selection the filter made
\* of it: no aggregation and no forecast call has changed the object it was handed.
C11_CachedTableStaysAsLoaded ==
    session = "ran"
        => /\ df = load(csv).val
           /\ filtered_df = FilteredDf(df, filter)

\* reached: a run with the filter narrowed to the 17:30 trip, in which the bike
\* usage of the view and the forecast of the cached table have both been computed
C11_Witness ==
    /\ session = "ran"
    /\ Len(df.rows) = 2
    /\ Len(filtered_df.rows) = 1
    /\ DtHour(filtered_df.rows[1]["Start Time"].v) = 17
    /\ dashboard.bike_usage.ok
    /\ dashboard.forecast_df.ok
    /\ Len(dashboard.forecast_df.val) = 24
    /\ {"date", "hour", "is_weekend"} \cap df.columns = {}

\* C12: when the file is absent load raises FileNotFoundError; when the file is there
\* and cannot be read as CSV load raises another error, a ValueError that carries the
\* error of read_csv; in both cases the call yields no table and the session has none:
\* the dashboard stops on the first and the second error ends the run.
C12_LoadFailsWithoutATable ==
    LET loaded == load(csv)
    IN  /\ csv.state = "absent"
            => /\ loaded = Raise("FileNotFoundError")
               /\ session \in {"start", "stopped"}
               /\ df = None
        /\ csv.state = "malformed"
            => /\ loaded = ValueErrorFrom(csv.error)
               /\ loaded.exc # "FileNotFoundError"
               /\ "val" \notin DOMAIN loaded
               /\ session \in {"start", "crashed"}
               /\ df = None

\* reached: the session of a file that is there and is not CSV, after its only run
C12_Witness ==
    /\ csv = [state |-> "malformed", error |-> "ParserError"]
    /\ session = "crashed"
    /\ df = None
    /\ dashboard = NotRendered

\* C13: of the rows written to a file that has a start-time column, load keeps
\* exactly those with a start time that parses and a trip id, in the order written:
\* the loaded row count is the written count less the rows whose start time or trip
\* id is null.  (Violated: a row with a start time and no trip id is kept and
\* counted.)
C13_DropsRowsWithoutStartTimeOrTripId ==
    (csv.state = "ok" /\ session # "start" /\ "Start Time" \in csv.frame.columns)
        => LET written == rename_columns(csv.frame)
               Null(i) == \/ IsNA(ToDatetime(written.rows[i]["Start Time"]))
                          \/ IsNA(written.rows[i]["trip_id"])
               kept == Ascending({i \in 1..Len(written.rows) : ~Null(i)})
           IN  /\ Len(df.rows) = Len(written.rows)
                      - Cardinality({i \in 1..Len(written.rows) : Null(i)})
               /\ [k \in 1..Len(df.rows) |-> df.rows[k]["trip_id"]]
                      = [k \in 1..Len(kept) |-> written.rows[kept[k]]["trip_id"]]

-----------------------------------------------------------------------------
(* Properties of the station aggregations (SpecLib) *)

\* the station column a mode counts
StationColumn(station_type) ==
    IF station_type = "start" THEN "start_station_name" ELSE "end_station_name"

\* the names in column c of d that are neither null nor blank and, when
\* leave_out_test holds, do not contain "test", "temp" or "invalid" in any case
CountedStations(d, c, leave_out_test) ==
    IF IsNone(d) \/ c \notin d.columns THEN {}
    ELSE {d.rows[i][c].v : i \in {j \in 1..Len(d.rows) :
              /\ NotNA(d.rows[j][c])
              /\ d.rows[j][c].v # <<>>
              /\ leave_out_test =>
                     \A pat \in TestPatterns : ~Contains(Lower(d.rows[j][c].v), pat)}}

\* the rows of d whose cell in column c is the name s
RowsAt(d, c, s) == Cardinality({i \in 1..Len(d.rows) : d.rows[i][c] = Str(s)})

\* out is the first n rows of the ordering of the stations `names` of column c by
\* trip count descending, then name ascending, each with its count of rows of d
IsTopStations(out, d, c, n, names) ==
    LET Before(a, b) == \/ RowsAt(d, c, a) > RowsAt(d, c, b)
                        \/ (RowsAt(d, c, a) = RowsAt(d, c, b) /\ StrLess(a, b))
        returned == {out[j].station_name : j \in 1..Len(out)}
    IN  /\ Len(out) = IF n < Cardinality(names) THEN n ELSE Cardinality(names)
        /\ returned \subseteq names
        /\ \A j \in 1..Len(out) : out[j].trip_count = RowsAt(d, c, out[j].station_name)
        /\ \A j, k \in 1..Len(out) : j < k => Before(out[j].station_name, out[k].station_name)
        /\ \A s \in names \ returned : \A j \in 1..Len(out) : Before(out[j].station_name, s)

\* C14: get_top_stations returns at most n rows, a station and the number of input
\* rows whose origin (destination, in destination mode) it is, by trip count
\* descending and station name ascending among equal counts: the first n rows of
\* that ordering over the stations that are not null, not blank and not a test
\* entry (a name containing "test", "temp" or "invalid", in any case).
C14_TopStations ==
    ret.fn = "get_top_stations"
        => IsTopStations(ret.out.val, table, StationColumn(ret.station_type), ret.n,
               CountedStations(table, StationColumn(ret.station_type), TRUE))

\* C14 as stated: the ordering is over all non-blank stations.
C14_TopStations_AsStated ==
    ret.fn = "get_top_stations"
        => IsTopStations(ret.out.val, table, StationColumn(ret.station_type), ret.n,
               CountedStations(table, StationColumn(ret.station_type), FALSE))

\* reached: origins Test, B and A once each and n = 1: the row of A, which ties
\* with B and comes first by name, and no row for Test
C14_Witness ==
    /\ ret.fn = "get_top_stations"
    /\ ret.n = 1
    /\ ret.station_type = "start"
    /\ table \in MessyStationTables
    /\ Column(table, "start_station_name") = <<Str(StationTest), Str(StationB), Str(StationA)>>
    /\ ret.out.val = <<[station_name |-> StationA, trip_count |-> 1]>>

\* the (origin, destination) pairs of the valid rows of d, without the circular ones
\* unless include_circular
RoutePairs(d, include_circular) ==
    IF IsNone(d) \/ ~({"start_station_name", "end_station_name"} \subseteq d.columns)
    THEN {}
    ELSE {<<d.rows[i]["start_station_name"].v, d.rows[i]["end_station_name"].v>> :
              i \in {j \in 1..Len(d.rows) :
                  /\ ValidStation(d.rows[j]["start_station_name"])
                  /\ ValidStation(d.rows[j]["end_station_name"])
                  /\ include_circular
                         \/ d.rows[j]["start_station_name"].v # d.rows[j]["end_station_name"].v}}

\* the rows of d from origin p[1] to destination p[2]
RowsOfPair(d, p) ==
    Cardinality({i \in 1..Len(d.rows) :
        /\ d.rows[i]["start_station_name"] = Str(p[1])
        /\ d.rows[i]["end_station_name"] = Str(p[2])})

RouteLabel(p) == p[1] \o Arrow \o p[2]

\* out is the first n rows of the ordering of the pairs by trip count descending,
\* then label ascending, a row per pair with the pair's label and count of rows
IsTopRoutes(out, d, n, pairs) ==
    LET PairOf(row) == CHOOSE p \in pairs : RouteLabel(p) = row.route
        Before(p, q) ==
            \/ RowsOfPair(d, p) > RowsOfPair(d, q)
            \/ (RowsOfPair(d, p) = RowsOfPair(d, q) /\ StrLess(RouteLabel(p), RouteLabel(q)))
    IN  /\ Len(out) = IF n < Cardinality(pairs) THEN n ELSE Cardinality(pairs)
        /\ \A j \in 1..Len(out) :
               /\ Cardinality({p \in pairs : RouteLabel(p) = out[j].route}) = 1
               /\ out[j].trip_count = RowsOfPair(d, PairOf(out[j]))
        /\ \A j, k \in 1..Len(out) : j < k => Before(PairOf(out[j]), PairOf(out[k]))
        /\ \A p \in pairs : (\A j \in 1..Len(out) : PairOf(out[j]) # p)
               => \A j \in 1..Len(out) : Before(PairOf(out[j]), p)

\* C15: get_top_routes returns a row per (origin, destination) pair of the valid
\* input rows, the pair's label "origin -> destination" with the number of valid
\* rows of exactly that origin and destination, by trip_count descending then label
\* ascending, cut to the first n.  (Violated: with include_circular = False the call
\* raises on a table whose station columns are category columns of different
\* categories, as the loader makes them.)
C15_RoutesAreStationPairs ==
    ret.fn = "get_top_routes"
        => /\ ret.out.ok
           /\ IsTopRoutes(ret.out.val, table, ret.n, RoutePairs(table, ret.include_circular))


\* C16: every row get_top_routes returns carries the route's start_station and
\* end_station, neither null nor blank, and rows of equal trip_count are in
\* ascending order of start_station.  (Violated: the rows have the columns route and
\* trip_count and no other.)
C16_RoutesCarryTheirStations ==
    (ret.fn = "get_top_routes" /\ ret.out.ok)
        => LET out == ret.out.val
           IN  /\ \A j \in 1..Len(out) :
                      /\ {"start_station", "end_station"} \subseteq DOMAIN out[j]
                      /\ ValidStation(Str(out[j].start_station))
                      /\ ValidStation(Str(out[j].end_station))
               /\ \A j, k \in 1..Len(out) :
                      (j < k /\ out[j].trip_count = out[k].trip_count)
                          => ~StrLess(out[k].start_station, out[j].start_station)

\* the stations of d: the valid names in either station column
StationsOf(d) ==
    IF IsNone(d) \/ ~({"start_station_name", "end_station_name"} \subseteq d.columns)
    THEN {}
    ELSE {x.v : x \in {y \in {d.rows[i][c] : i \in 1..Len(d.rows),
                                c \in {"start_station_name", "end_station_name"}} :
                          ValidStation(y)}}

\* rows of d that arrive at s less rows of d that depart from s
NetFlowOf(d, s) == RowsAt(d, "end_station_name", s) - RowsAt(d, "start_station_name", s)

\* C17: get_station_flow_balance reports, for each station that is an origin or a
\* destination in the input table, the integer (rows where it is the destination) -
\* (rows where it is the origin), a side on which it does not occur counting zero;
\* each station is reported when n is at least the number of stations.  (Violated:
\* the call raises on a table whose station columns are category columns of the same
\* categories; and a row with a null, blank or test station on its other side is
\* not counted.)
C17_NetFlowIsArrivalsLessDepartures ==
    ret.fn = "get_station_flow_balance"
        => /\ ret.out.ok
           /\ \A j \in 1..Len(ret.out.val) :
                  /\ ret.out.val[j].Station \in StationsOf(table)
                  /\ ret.out.val[j].NetFlow \in Int
                  /\ ret.out.val[j].NetFlow = NetFlowOf(table, ret.out.val[j].Station)
           /\ ret.n >= Cardinality(StationsOf(table))
                  => {ret.out.val[j].Station : j \in 1..Len(ret.out.val)} = StationsOf(table)


\* C18: the rows get_station_flow_balance returns are the first n rows of the
\* ordering of its stations by absolute net flow descending and, among equal
\* absolute net flows, station name ascending.  (Violated: the call raises on a
\* table whose station columns are category columns of the same categories, as the
\* loader makes them.)
C18_LargestImbalanceFirst ==
    ret.fn = "get_station_flow_balance"
        => /\ ret.out.ok
           /\ LET out == ret.out.val
                  counted == IF StationsOf(table) = {} THEN table ELSE CleanStations(table)
                  stations == StationsOf(counted)
                  Before(a, b) ==
                      \/ Abs(NetFlowOf(counted, a)) > Abs(NetFlowOf(counted, b))
                      \/ /\ Abs(NetFlowOf(counted, a)) = Abs(NetFlowOf(counted, b))
                         /\ StrLess(a, b)
                  returned == {out[j].Station : j \in 1..Len(out)}
              IN  /\ Len(out) = IF ret.n < Cardinality(stations) THEN ret.n
                                ELSE Cardinality(stations)
                  /\ returned \subseteq stations
                  /\ \A j, k \in 1..Len(out) : j < k => Before(out[j].Station, out[k].Station)
                  /\ \A s \in stations \ returned :
                         \A j \in 1..Len(out) : Before(out[j].Station, s)

-----------------------------------------------------------------------------
(* Properties of the temporal aggregations (SpecLib) *)

\* the rows of d that start in hour h
TripsInHour(d, h) ==
    Cardinality({i \in 1..Len(d.rows) :
        d.rows[i]["Start Time"].k = "ts" /\ DtHour(d.rows[i]["Start Time"].v) = h})

\* C19: on a table with rows and a start-time column get_peak_hours returns 24 rows,
\* the hours 0..23 in ascending order, each with the number of trips that start in
\* it, 0 for an hour with no trip.  (Violated: an hour with no trip has no row.)
C19_AllTwentyFourHours ==
    (ret.fn = "get_peak_hours" /\ ~IsNone(table) /\ ~Empty(table)
         /\ "Start Time" \in table.columns)
        => /\ Len(ret.out.val) = 24
           /\ \A j \in 1..Len(ret.out.val) :
                  ret.out.val[j] = [hour |-> j - 1, trip_count |-> TripsInHour(table, j - 1)]

\* the calendar dates of the rows of d, and the rows of d that start on a date
DatesOf(d) ==
    IF IsNone(d) \/ "Start Time" \notin d.columns THEN {}
    ELSE {d.rows[i]["Start Time"].v \div SecondsPerDay :
              i \in {j \in 1..Len(d.rows) : d.rows[j]["Start Time"].k = "ts"}}

TripsOnDate(d, day) ==
    Cardinality({i \in 1..Len(d.rows) :
        /\ d.rows[i]["Start Time"].k = "ts"
        /\ d.rows[i]["Start Time"].v \div SecondsPerDay = day})

\* C20: get_daily_trend returns one row per distinct calendar date of the input, in
\* strictly ascending date order, trip_count the number of trips that start on the
\* date, and is_peak_day true for exactly the dates whose trip_count is the maximum
\* trip_count: every tied date is flagged, and some date is when there is a row.
C20_DailyTrendFlagsEveryPeakDay ==
    ret.fn = "get_daily_trend"
        => LET out == ret.out.val
           IN  /\ {out[j].date : j \in 1..Len(out)} = DatesOf(table)
               /\ \A j, k \in 1..Len(out) : j < k => out[j].date < out[k].date
               /\ \A j \in 1..Len(out) :
                      /\ out[j].trip_count = TripsOnDate(table, out[j].date)
                      /\ out[j].is_peak_day
                             <=> \A k \in 1..Len(out) : out[k].trip_count <= out[j].trip_count
               /\ out # <<>> => \E j \in 1..Len(out) : out[j].is_peak_day

\* reached: two trips on day 0, one on day 1, two on day 2: three rows in date
\* order, the two days of two trips both flagged
C20_Witness ==
    /\ ret.fn = "get_daily_trend"
    /\ ret.out.val
           = <<[date |-> 0, trip_count |-> 2, day_of_week |-> "Thursday", is_peak_day |-> TRUE],
               [date |-> 1, trip_count |-> 1, day_of_week |-> "Friday", is_peak_day |-> FALSE],
               [date |-> 2, trip_count |-> 2, day_of_week |-> "Saturday", is_peak_day |-> TRUE]>>

-----------------------------------------------------------------------------
(* Properties of the bike usage (SpecLib) *)

\* the bike ids of a table with the columns bike_id and trip_duration_seconds
BikesOf(d) ==
    IF IsNone(d) \/ ~({"bike_id", "trip_duration_seconds"} \subseteq d.columns) THEN {}
    ELSE {d.rows[i]["bike_id"].v : i \in 1..Len(d.rows)}

\* the durations of the trips of bike b among the first k rows of d, added up
RECURSIVE DurationUpTo(_, _, _)
DurationUpTo(d, b, k) ==
    IF k = 0 THEN 0
    ELSE DurationUpTo(d, b, k - 1)
             + (IF d.rows[k]["bike_id"] = Num(b) THEN d.rows[k]["trip_duration_seconds"].v
                ELSE 0)

TotalDuration(d, b) == DurationUpTo(d, b, Len(d.rows))

\* C21: get_bike_usage returns one row per bike id, total_duration_seconds the sum of
\* the durations of that bike's trips, in descending order of total duration, cut to
\* the top_n bikes of the largest totals.
C21_BikeUsageSumsPerBike ==
    ret.fn = "get_bike_usage"
        => LET out == ret.out.val
               bikes == BikesOf(table)
               returned == {out[j].bike_id : j \in 1..Len(out)}
           IN  /\ Len(out) = IF ret.top_n < Cardinality(bikes) THEN ret.top_n
                             ELSE Cardinality(bikes)
               /\ Cardinality(returned) = Len(out)
               /\ returned \subseteq bikes
               /\ \A j \in 1..Len(out) :
                      out[j].total_duration_seconds = TotalDuration(table, out[j].bike_id)
               /\ \A j, k \in 1..Len(out) :
                      j < k => out[j].total_duration_seconds >= out[k].total_duration_seconds
               /\ \A b \in bikes \ returned : \A j \in 1..Len(out) :
                      out[j].total_duration_seconds >= TotalDuration(table, b)

\* reached: bikes 1, 1, 2 with durations 60, 30, 30 and top_n = 10: the rows
\* (1, 90) and (2, 30)
C21_Witness ==
    /\ ret.fn = "get_bike_usage"
    /\ ret.top_n = 10
    /\ table \in BikeTables
    /\ Column(table, "bike_id") = <<Num(1), Num(1), Num(2)>>
    /\ Column(table, "trip_duration_seconds") = <<Num(60), Num(30), Num(30)>>
    /\ Len(ret.out.val) = 2
    /\ ret.out.val[1].bike_id = 1 /\ ret.out.val[1].total_duration_seconds = 90
    /\ ret.out.val[2].bike_id = 2 /\ ret.out.val[2].total_duration_seconds = 30

-----------------------------------------------------------------------------
(* Properties of the date filter (Spec) *)

\* C22: with the two time inputs at their defaults the view handed to the
\* aggregations holds exactly the trips whose start date d has start_date <= d <=
\* end_date, in the order of the loaded table; the full range gives the whole
\* table.  (Violated: a trip that starts after 23:59:00 on end_date is left out.)
C22_DateRangeIsInclusive ==
    (session = "ran" /\ filter.start_time = DefaultStartTime
         /\ filter.end_time = DefaultEndTime)
        => /\ filtered_df
                  = Loc(df, [i \in 1..Len(df.rows) |->
                                /\ filter.start_date <= DtDate(df.rows[i]["Start Time"].v)
                                /\ DtDate(df.rows[i]["Start Time"].v) <= filter.end_date])
           /\ (filter.start_date = MinDate(df) /\ filter.end_date = MaxDate(df))
                  => filtered_df = df

-----------------------------------------------------------------------------
(* Properties of the forecast's statistics (SpecLib) *)

\* the dates on which a trip of d starts in hour h, and the trips of d that start in
\* hour h on a date
DatesWithHour(d, h) ==
    {d.rows[i]["Start Time"].v \div SecondsPerDay :
        i \in {j \in 1..Len(d.rows) :
                  /\ d.rows[j]["Start Time"].k = "ts"
                  /\ (d.rows[j]["Start Time"].v % SecondsPerDay) \div SecondsPerHour = h}}

TripsAt(d, day, h) ==
    Cardinality({i \in 1..Len(d.rows) :
        /\ d.rows[i]["Start Time"].k = "ts"
        /\ d.rows[i]["Start Time"].v \div SecondsPerDay = day
        /\ (d.rows[i]["Start Time"].v % SecondsPerDay) \div SecondsPerHour = h})

\* C23: in the rows predict_hourly_demand returns std_dev is a number that is not
\* negative, and it is 0 for every hour with fewer than two per-date samples (no
\* date or one date with a trip in the hour).
C23_StdDevNeverNegativeOrMissing ==
    (ret.fn = "predict_hourly_demand" /\ ret.out.ok)
        => \A j \in 1..Len(ret.out.val) :
               /\ ret.out.val[j].std_dev >= 0
               /\ Cardinality(DatesWithHour(table, ret.out.val[j].hour)) < 2
                      => ret.out.val[j].std_dev = 0

\* reached: two trips at 08:00 of one day: hour 8 has the one sample 2, mean 2 and
\* deviation 0
C23_Witness ==
    /\ ret.fn = "predict_hourly_demand"
    /\ ret.out.ok
    /\ Len(ret.out.val) = 24
    /\ DatesWithHour(table, 8) = {1}
    /\ TripsAt(table, 1, 8) = 2
    /\ ret.out.val[9].predicted_demand = 2
    /\ ret.out.val[9].std_dev = 0

\* the per-date trip counts of hour h over the dates `days`, each raised to the power
\* p (1 or 2), added up
RECURSIVE SumOfCounts(_, _, _, _)
SumOfCounts(d, h, days, p) ==
    IF days = {} THEN 0
    ELSE LET day == CHOOSE x \in days : TRUE
             c == TripsAt(d, day, h)
         IN  (IF p = 2 THEN c * c ELSE c) + SumOfCounts(d, h, days \ {day}, p)

\* n * (n - 1) times the sample variance of the per-date counts of hour h
VarianceTimes(d, h) ==
    LET days == DatesWithHour(d, h)
    IN  Cardinality(days) * SumOfCounts(d, h, days, 2)
            - SumOfCounts(d, h, days, 1) * SumOfCounts(d, h, days, 1)

\* C24: std_dev is the sample standard deviation of the hour's per-date trip counts
\* rounded to a whole number: it is strictly positive exactly for the hours whose
\* counts deviate by more than one half (variance over 1/4), as for counts 3 and 1.
C24_StdDevPositiveAboveOneHalf ==
    (ret.fn = "predict_hourly_demand" /\ ret.out.ok)
        => \A j \in 1..Len(ret.out.val) :
               LET n == Cardinality(DatesWithHour(table, ret.out.val[j].hour))
               IN  ret.out.val[j].std_dev > 0
                       <=> (n >= 2 /\ 4 * VarianceTimes(table, ret.out.val[j].hour)
                                          > n * (n - 1))

\* C24 as stated: std_dev is strictly positive for every hour whose per-date trip
\* counts are not all equal.
C24_StdDevPositive_AsStated ==
    (ret.fn = "predict_hourly_demand" /\ ret.out.ok)
        => \A j \in 1..Len(ret.out.val) :
               (\E a, b \in DatesWithHour(table, ret.out.val[j].hour) :
                    TripsAt(table, a, ret.out.val[j].hour)
                        # TripsAt(table, b, ret.out.val[j].hour))
                   => ret.out.val[j].std_dev > 0

\* reached: three trips at 08:00 of day 1 and one at 08:00 of day 2: the deviation
\* of 3 and 1 is 1.41, std_dev 1
C24_Witness ==
    /\ ret.fn = "predict_hourly_demand"
    /\ ret.out.ok
    /\ Len(ret.out.val) = 24
    /\ DatesWithHour(table, 8) = {1, 2}
    /\ TripsAt(table, 1, 8) = 3
    /\ TripsAt(table, 2, 8) = 1
    /\ ret.out.val[9].std_dev = 1

-----------------------------------------------------------------------------
(* Conservation of the flow balance (SpecLib) *)

\* C25: when get_station_flow_balance returns with n at least the number of
\* stations it counted (the stations of the rows with two valid stations), the
\* Net Flow values of its rows add up to 0: every counted trip is one departure
\* and one arrival.
C25_NetFlowsAddUpToZero ==
    (/\ ret.fn = "get_station_flow_balance"
     /\ ret.out.ok
     /\ StationsOf(table) # {}
     /\ ret.n >= Cardinality(StationsOf(CleanStations(table))))
        => /\ {ret.out.val[j].Station : j \in 1..Len(ret.out.val)}
                  = StationsOf(CleanStations(table))
           /\ SumSeq([j \in 1..Len(ret.out.val) |-> ret.out.val[j].NetFlow]) = 0

\* reached: two trips from A to B, n = 20: A -2 and B +2
C25_Witness ==
    /\ ret.fn = "get_station_flow_balance"
    /\ ret.out.ok
    /\ ret.n = 20
    /\ Len(ret.out.val) = 2
    /\ \E j, k \in 1..2 :
           /\ ret.out.val[j].Station = StationA
           /\ ret.out.val[j].NetFlow = -2
           /\ ret.out.val[k].Station = StationB
           /\ ret.out.val[k].NetFlow = 2

-----------------------------------------------------------------------------
(* Properties of the predicted demand (SpecLib) *)

\* C26: when predict_hourly_demand returns on a table that has rows, each hour
\* 0..23 has its row, and the row's predicted_demand is 0 exactly when no trip of
\* the table starts in that hour and at least 1 otherwise.
C26_DemandIsZeroOnlyWithoutTrips ==
    (/\ ret.fn = "predict_hourly_demand"
     /\ ret.out.ok
     /\ ~IsNone(table)
     /\ ~Empty(table))
        => /\ Len(ret.out.val) = 24
           /\ \A h \in 0..23 :
                  /\ ret.out.val[h + 1].hour = h
                  /\ ret.out.val[h + 1].predicted_demand = 0 <=> TripsInHour(table, h) = 0
                  /\ TripsInHour(table, h) > 0 => ret.out.val[h + 1].predicted_demand >= 1

\* reached: a table with one trip at 08:30 and none in the hour 17: demand 1 at 8
\* and 0 at 17
C26_Witness ==
    /\ ret.fn = "predict_hourly_demand"
    /\ ret.out.ok
    /\ Len(ret.out.val) = 24
    /\ TripsInHour(table, 8) = 1
    /\ TripsInHour(table, 17) = 0
    /\ ret.out.val[9].predicted_demand = 1
    /\ ret.out.val[18].predicted_demand = 0

-----------------------------------------------------------------------------
(* Properties of the extreme-usage flag (SpecLib) *)

\* the bikes of d from the smallest total duration to the largest
BikesByTotal(d) ==
    CHOOSE p \in [1..Cardinality(BikesOf(d)) -> BikesOf(d)] :
        /\ \A i, j \in DOMAIN p : i # j => p[i] # p[j]
        /\ \A i, j \in DOMAIN p : i < j => TotalDuration(d, p[i]) <= TotalDuration(d, p[j])

\* qd times the quantile qn / qd of the total durations of all the bikes of d
CutoffOverAllBikes(d, qn, qd) ==
    QuantileTimes([j \in 1..Cardinality(BikesOf(d)) |-> TotalDuration(d, BikesByTotal(d)[j])],
                  qn, qd)

=============================================================================
